---- MODULE Spec2Model ----
(***************************************************************************)
(* Model of the Iranian ID card extractor (src/api.py and                  *)
(* src/id_card_extractor.py): the national-id checksum, the regex-driven   *)
(* field parser and the two orchestrators (HTTP endpoint and CLI).         *)
(*                                                                         *)
(* A Python str is a sequence of characters; a character is a TLA+ string. *)
(* ASCII characters stand for themselves.  Persian letters are named by    *)
(* their transliteration ("nun" = U+0646, "alef" = U+0627, ...) and the    *)
(* Persian digits U+06F0..U+06F9 are "fa0".."fa9".                         *)
(***************************************************************************)
EXTENDS Integers, Sequences, FiniteSets, TLC

VARIABLES
    national_id_arg,    \* argument of one validate_national_id call
    validate_result,    \* what that call produced (Pending before it)
    text,               \* argument of one parse_id_card_info call
    parse_result,       \* what that call produced (Pending before it)
    program,            \* "api" (src/api.py) or "cli" (src/id_card_extractor.py)
    extractor,          \* the shared IranianIDCardExtractor instance (self)
    input,              \* per request: the upload / image file it was given
    pc,                 \* per request: the statement it is about to run
    locals,             \* per request: the local variables of the orchestrator
    stages,             \* per request: the stages it has run, in order
    outcome             \* per request: what the caller finally receives

vars == <<national_id_arg, validate_result, text, parse_result, program, extractor,
          input, pc, locals, stages, outcome>>

validateVars == <<national_id_arg, validate_result>>
parseVars == <<text, parse_result>>
pipelineVars == <<program, extractor, input, pc, locals, stages, outcome>>

-----------------------------------------------------------------------------
(* Characters *)

AsciiDigits == {"0", "1", "2", "3", "4", "5", "6", "7", "8", "9"}

PersianDigits == {"fa0", "fa1", "fa2", "fa3", "fa4", "fa5", "fa6", "fa7", "fa8", "fa9"}

\* Python's None.  It is kept distinct from every str: no text holds this
\* character.
None == <<"<None>">>


\* re's \d on a str pattern and int() both accept every Unicode decimal digit.
IsDigit(c) == c \in AsciiDigits \cup PersianDigits

\* re's \s and str.strip(): whitespace.
IsSpace(c) == c \in {" ", "\t", "\n", "\r"}

\* the complement of the class [^\n\r]
IsNewline(c) == c \in {"\n", "\r"}

\* int(c) of a one-character string that is a decimal digit.
DigitValue(c) ==
    CASE c \in {"0", "fa0"} -> 0
      [] c \in {"1", "fa1"} -> 1
      [] c \in {"2", "fa2"} -> 2
      [] c \in {"3", "fa3"} -> 3
      [] c \in {"4", "fa4"} -> 4
      [] c \in {"5", "fa5"} -> 5
      [] c \in {"6", "fa6"} -> 6
      [] c \in {"7", "fa7"} -> 7
      [] c \in {"8", "fa8"} -> 8
      [] c \in {"9", "fa9"} -> 9

-----------------------------------------------------------------------------
(* validate_national_id *)

Return(v) == [kind |-> "return", value |-> v]

Raise(e) == [kind |-> "raise", exc |-> e]

\* A call that has not been made yet.
Pending == [kind |-> "pending"]

\* The same loop with the weight written 9 - i.
RECURSIVE CheckSumLoopWrongWeight(_, _, _)
CheckSumLoopWrongWeight(national_id, i, check_sum) ==
    IF i = 9 THEN Return(check_sum)
    ELSE IF ~IsDigit(national_id[i + 1]) THEN Raise("ValueError")
    ELSE CheckSumLoopWrongWeight(national_id, i + 1,
                      check_sum + DigitValue(national_id[i + 1]) * (9 - i))

\* for i in range(9): check_sum += int(national_id[i]) * (10 - i)
\* (i is the Python index; the TLA+ sequence is 1-based).  int() of a
\* character that is no digit raises ValueError, which ends the loop.
RECURSIVE CheckSumLoop(_, _, _)
CheckSumLoop(national_id, i, check_sum) ==
    IF i = 9 THEN Return(check_sum)
    ELSE IF ~IsDigit(national_id[i + 1]) THEN Raise("ValueError")
    ELSE CheckSumLoop(national_id, i + 1,
                      check_sum + DigitValue(national_id[i + 1]) * (10 - i))

\* len(set(national_id)) == 1
AllSameChar(national_id) ==
    Cardinality({national_id[i] : i \in 1..Len(national_id)}) = 1

\* The tail of validate_national_id, from the loop on.
CheckDigit(national_id) ==
    LET loop == CheckSumLoop(national_id, 0, 0)
    IN  IF loop.kind = "raise" THEN loop
        ELSE LET remainder == loop.value % 11
             IN  IF ~IsDigit(national_id[10]) THEN Raise("ValueError")
                 ELSE IF remainder < 2
                      THEN Return(DigitValue(national_id[10]) = remainder)
                      ELSE Return(DigitValue(national_id[10]) = 11 - remainder)

validate_national_id(national_id) ==
    IF national_id = None \/ Len(national_id) = 0 \/ Len(national_id) # 10
    THEN Return(FALSE)
    ELSE IF AllSameChar(national_id) THEN Return(FALSE)
    ELSE CheckDigit(national_id)

-----------------------------------------------------------------------------
(* The regular expressions of parse_id_card_info *)

\* The label tokens of the patterns dict.
LabelNam == <<"nun", "alef", "mim">>

LabelNamKhanevadegi ==
    LabelNam \o <<" ", "khe", "alef", "nun", "vav", "alef", "dal", "gaf", "ye">>

LabelNamPedar == LabelNam \o <<" ", "pe", "dal", "re">>

LabelMahalTavallod == <<"mim", "hah", "lam", " ", "te", "vav", "lam", "dal">>

LabelShenasnameh == <<"shin", "nun", "alef", "sin", "nun", "alef", "mim", "he">>

\* The literal lit occurs in text at position i.
MatchesAt(text_, i, lit) ==
    /\ i + Len(lit) - 1 <= Len(text_)
    /\ \A k \in 1..Len(lit) : text_[i + k - 1] = lit[k]

\* Greedy \s* from position p: the first position at or after p that holds
\* no whitespace (Len + 1 when the text ends first).
RECURSIVE SkipSpaces(_, _)
SkipSpaces(text_, p) ==
    IF p <= Len(text_) /\ IsSpace(text_[p]) THEN SkipSpaces(text_, p + 1) ELSE p

\* The group written (.+) under re.DOTALL: it runs to the end of the text.
LineEndOfText(text_, p) == Len(text_)

\* Greedy [^\n\r]+ from position p, which holds a character of the class:
\* the last position of the run.
RECURSIVE LineEnd(_, _)
LineEnd(text_, p) ==
    IF p + 1 <= Len(text_) /\ ~IsNewline(text_[p + 1])
    THEN LineEnd(text_, p + 1) ELSE p

\* Greedy \d+ (or \d{1,n}) from position p, which holds a digit: the last
\* position of the run, at most max characters long.
RECURSIVE DigitRunEnd(_, _, _)
DigitRunEnd(text_, p, max) ==
    IF max > 1 /\ p + 1 <= Len(text_) /\ IsDigit(text_[p + 1])
    THEN DigitRunEnd(text_, p + 1, max - 1) ELSE p

\* Backtracking of a \s* that ran over lo..hi: the largest position in
\* lo..hi at which [^\n\r]+ can start, 0 when there is none.
RECURSIVE LastGroupStart(_, _, _)
LastGroupStart(text_, lo, hi) ==
    IF hi < lo THEN 0
    ELSE IF ~IsNewline(text_[hi]) THEN hi
    ELSE LastGroupStart(text_, lo, hi - 1)

NoMatch == [matched |-> FALSE]

\* A match whose group (and so the match itself) ends at position to.
Group(from, to) == [matched |-> TRUE, from |-> from, to |-> to]

\* label\s*:?\s*([^\n\r]+) tried at position i.  \s* crosses line ends.  When
\* the greedy whitespace runs to the end of the text the engine backtracks:
\* the second \s* gives characters back, then :? gives the colon back, then
\* the first \s* gives characters back.
MatchName(text_, i, label) ==
    IF ~MatchesAt(text_, i, label) THEN NoMatch
    ELSE LET n == Len(text_)
             p == i + Len(label)
             p1 == SkipSpaces(text_, p)
             colon == p1 <= n /\ text_[p1] = ":"
             p2 == IF colon THEN p1 + 1 ELSE p1
             p3 == SkipSpaces(text_, p2)
             q2 == LastGroupStart(text_, p2, n)
             q1 == LastGroupStart(text_, p, n)
         IN  IF p3 <= n THEN Group(p3, LineEnd(text_, p3))
             ELSE IF q2 # 0 THEN Group(q2, LineEnd(text_, q2))
             ELSE IF colon THEN Group(p1, LineEnd(text_, p1))
             ELSE IF q1 # 0 THEN Group(q1, LineEnd(text_, q1))
             ELSE NoMatch

\* (\d{10}) tried at position i.
MatchNationalId(text_, i) ==
    IF i + 9 <= Len(text_) /\ \A k \in 0..9 : IsDigit(text_[i + k])
    THEN Group(i, i + 9) ELSE NoMatch

\* (\d{4}/\d{1,2}/\d{1,2}) tried at position i.
MatchBirthDate(text_, i) ==
    LET n == Len(text_)
        digit(p) == p <= n /\ IsDigit(text_[p])
        slash(p) == p <= n /\ text_[p] = "/"
        \* position of the second slash: after a month of two digits, else one
        s2 == IF digit(i + 5) /\ digit(i + 6) /\ slash(i + 7) THEN i + 7
              ELSE IF digit(i + 5) /\ slash(i + 6) THEN i + 6
              ELSE 0
    IN  IF /\ \A k \in 0..3 : digit(i + k)
           /\ slash(i + 4)
           /\ s2 # 0
           /\ digit(s2 + 1)
        THEN Group(i, DigitRunEnd(text_, s2 + 1, 2))
        ELSE NoMatch

\* Lazy .*? followed by \d: the first digit at or after p with no "\n"
\* before it ('.' matches everything but "\n"), 0 when there is none.
RECURSIVE FirstDigitOnLine(_, _)
FirstDigitOnLine(text_, p) ==
    IF p > Len(text_) THEN 0
    ELSE IF IsDigit(text_[p]) THEN p
    ELSE IF text_[p] = "\n" THEN 0
    ELSE FirstDigitOnLine(text_, p + 1)

\* label.*?(\d+) tried at position i.
MatchCertificate(text_, i) ==
    IF ~MatchesAt(text_, i, LabelShenasnameh) THEN NoMatch
    ELSE LET j == FirstDigitOnLine(text_, i + Len(LabelShenasnameh))
         IN  IF j = 0 THEN NoMatch
             ELSE Group(j, DigitRunEnd(text_, j, Len(text_)))

\* The patterns with the first-name label required to stand alone: no match
\* where the longer labels that begin with it occur.
MatchFieldStandaloneNam(field, text_, i) ==
    CASE field = "national_id" -> MatchNationalId(text_, i)
      [] field = "birth_date" -> MatchBirthDate(text_, i)
      [] field = "certificate_number" -> MatchCertificate(text_, i)
      [] field = "first_name" ->
            IF \/ MatchesAt(text_, i, LabelNamKhanevadegi)
               \/ MatchesAt(text_, i, LabelNamPedar)
            THEN NoMatch ELSE MatchName(text_, i, LabelNam)
      [] field = "last_name" -> MatchName(text_, i, LabelNamKhanevadegi)
      [] field = "father_name" -> MatchName(text_, i, LabelNamPedar)
      [] field = "birth_place" -> MatchName(text_, i, LabelMahalTavallod)

\* One pattern tried at position i.
MatchField(field, text_, i) ==
    CASE field = "national_id" -> MatchNationalId(text_, i)
      [] field = "birth_date" -> MatchBirthDate(text_, i)
      [] field = "certificate_number" -> MatchCertificate(text_, i)
      [] field = "first_name" -> MatchName(text_, i, LabelNam)
      [] field = "last_name" -> MatchName(text_, i, LabelNamKhanevadegi)
      [] field = "father_name" -> MatchName(text_, i, LabelNamPedar)
      [] field = "birth_place" -> MatchName(text_, i, LabelMahalTavallod)

\* re.findall(pattern, text): scan from the left; after a match go on right
\* after its end; the list holds the group of every match.
RECURSIVE FindAllFrom(_, _, _)
FindAllFrom(field, text_, i) ==
    IF i > Len(text_) THEN << >>
    ELSE LET m == MatchField(field, text_, i)
         IN  IF m.matched
             THEN <<SubSeq(text_, m.from, m.to)>> \o FindAllFrom(field, text_, m.to + 1)
             ELSE FindAllFrom(field, text_, i + 1)

findall(field, text_) == FindAllFrom(field, text_, 1)

-----------------------------------------------------------------------------
(* parse_id_card_info *)

Fields == {"first_name", "last_name", "father_name", "national_id",
           "birth_date", "birth_place", "certificate_number"}

NameFields == {"first_name", "last_name", "father_name", "birth_place"}

\* str.strip()
RECURSIVE strip(_)
strip(s) ==
    IF s = << >> THEN s
    ELSE IF IsSpace(Head(s)) THEN strip(Tail(s))
    ELSE IF IsSpace(s[Len(s)]) THEN strip(SubSeq(s, 1, Len(s) - 1))
    ELSE s

\* The loop with the length test written len(cleaned_match) > 0.
RECURSIVE SelectMatchOneChar(_, _)
SelectMatchOneChar(field, matches) ==
    IF matches = << >> THEN None
    ELSE LET match == Head(matches)
             cleaned_match == strip(match)
         IN  IF field = "national_id" /\ Len(match) = 10 THEN match
             ELSE IF field = "birth_date" THEN match
             ELSE IF field \in NameFields
                  THEN IF Len(cleaned_match) > 0 THEN cleaned_match
                       ELSE SelectMatchOneChar(field, Tail(matches))
             ELSE IF field = "certificate_number" THEN match
             ELSE SelectMatchOneChar(field, Tail(matches))

\* The loop with the break of the name fields outside the length test: the
\* first match decides.
SelectMatchBreakAlways(field, matches) ==
    IF matches = << >> THEN None
    ELSE LET match == Head(matches)
             cleaned_match == strip(match)
         IN  IF field \in NameFields
             THEN IF Len(cleaned_match) > 1 THEN cleaned_match ELSE None
             ELSE match

\* for match in matches: ... break  -- the value info[field] ends with
\* (None when the loop never assigns).
RECURSIVE SelectMatch(_, _)
SelectMatch(field, matches) ==
    IF matches = << >> THEN None
    ELSE LET match == Head(matches)
             cleaned_match == strip(match)
         IN  IF field = "national_id" /\ Len(match) = 10 THEN match
             ELSE IF field = "birth_date" THEN match
             ELSE IF field \in NameFields
                  THEN IF Len(cleaned_match) > 1 THEN cleaned_match
                       ELSE SelectMatch(field, Tail(matches))
             ELSE IF field = "certificate_number" THEN match
             ELSE SelectMatch(field, Tail(matches))

parse_id_card_info(text_) ==
    [field \in Fields |-> SelectMatch(field, findall(field, text_))]

-----------------------------------------------------------------------------
(* Inputs *)

\* Most lines a text is built from.
MaxLines == 2

\* Most characters of the base identifier that an input changes.
MaxEdits == 2

Ali == <<"A", "l", "i">>

Rezaei == <<"R", "e", "z", "a", "e", "i">>

\* A identifier that passes the checksum, a second one, and one that fails it.
ValidId == <<"0", "4", "9", "9", "1", "7", "0", "9", "5", "4">>

OtherValidId == <<"0", "0", "8", "4", "5", "7", "5", "9", "4", "8">>

InvalidId == <<"0", "4", "9", "9", "1", "7", "0", "9", "5", "8">>

\* ValidId as Tesseract's fas model prints it, in Persian digits.
PersianValidId ==
    <<"fa0", "fa4", "fa9", "fa9", "fa1", "fa7", "fa0", "fa9", "fa5", "fa4">>

\* The words "shomareh melli" (national number) that the card prints before
\* the identifier.
ShomarehMelli == <<"shin", "mim", "alef", "re", "he", " ", "mim", "lam", "ye">>

\* The lines OCR output is built from.
Lines == <<
    LabelNam \o <<":", " ">> \o Ali,
    LabelNam \o <<":", " ", "A">>,
    LabelNam,
    LabelNam \o <<":", " ", " ">>,
    LabelNamKhanevadegi \o <<":", " ">> \o Rezaei,
    LabelNamKhanevadegi,
    LabelNamPedar \o <<" ", "B", "o">>,
    LabelMahalTavallod \o <<":", " ", "Q", "o", "m">>,
    LabelMahalTavallod \o <<" ", "Q">>,
    LabelShenasnameh \o <<":", " ", "5">>,
    LabelShenasnameh \o <<" ", "1", "2", " ", "7">>,
    Ali,
    << >>,
    ValidId,
    OtherValidId,
    ValidId \o <<"1">>,
    ShomarehMelli \o <<":", " ">> \o PersianValidId,
    <<"1", "1", "1", "1", "1", "1", "1", "1", "1", "1">>,
    <<"1", "3", "7", "0", "/", "1", "/", "5">>,
    <<"9", "1", "3", "7", "0", "/", "1", "3", "/", "4", "5", "6">>,
    <<"1", "3", "7", "0", "/", "1", "2", "/", "0", "5">>,
    ValidId \o OtherValidId,
    LabelNam \o <<"\t", "A", " ">>,
    LabelMahalTavallod \o <<" ", ":", " ", "Q", "o", "m", " ">>,
    Ali \o <<"\r">> \o LabelNamPedar \o <<":", "B", "o", " ", "\t">> >>

\* "\n".join(lines)
RECURSIVE JoinLines(_)
JoinLines(ls) ==
    IF ls = << >> THEN << >>
    ELSE IF Len(ls) = 1 THEN Lines[ls[1]]
    ELSE Lines[ls[1]] \o <<"\n">> \o JoinLines(Tail(ls))

Texts ==
    {JoinLines(ls) : ls \in UNION {[1..n -> 1..Len(Lines)] : n \in 0..MaxLines}}

\* s with one character replaced, every way.
EditOnce(S, alphabet) ==
    S \cup {[s EXCEPT ![i] = c] : s \in S, i \in 1..10, c \in alphabet}

RECURSIVE Edits(_, _)
Edits(S, k) == IF k = 0 THEN S ELSE Edits(EditOnce(S, AsciiDigits), k - 1)

\* Strings of ten ASCII digits: ValidId with up to MaxEdits digits changed,
\* and the ten strings of one repeated digit.
DigitStrings ==
    Edits({ValidId}, MaxEdits) \cup {[i \in 1..10 |-> c] : c \in AsciiDigits}

\* Every other argument: None, other lengths, other characters.
OtherStrings ==
    {None}
    \cup {SubSeq(ValidId \o ValidId, 1, n) : n \in (0..12) \ {10}}
    \cup EditOnce({ValidId, PersianValidId}, {"a", " ", "fa1", "-"})
    \cup {[i \in 1..10 |-> c] : c \in {"a", "fa1", " "}}
    \cup {[i \in 1..10 |-> IF i % 2 = 0 THEN "1" ELSE "fa1"]}

ValidateInputs == DigitStrings \cup OtherStrings

-----------------------------------------------------------------------------
(* The collaborators: the image codec, OpenCV and Tesseract.  What they do *)
(* with an input is part of the input: its kind says which of them fails   *)
(* on it, its text is what Tesseract reads from it.                        *)

\* Most requests in flight at once.
MaxReq == 2

Req == 1..MaxReq

\* self.tesseract_config, as __init__ sets it
TesseractConfig == "--oem 3 --psm 6 -l fas+eng"

InitExtractor == [tesseract_config |-> TesseractConfig]

PipelineTexts ==
    {<< >>,
     Lines[1],
     Lines[1] \o <<"\n">> \o ValidId,
     Lines[5] \o <<"\n">> \o InvalidId,
     PersianValidId}

ImageInputs == {[kind |-> "image", text |-> t] : t \in PipelineTexts}

FailingInputs ==
    {[kind |-> k, text |-> Lines[1]] : k \in {"undecodable", "unprocessable", "ocr_error"}}

\* What the endpoint can be sent: a part that is no image, an empty file, or
\* image bytes.
ApiInputs ==
    {[kind |-> k, text |-> << >>] : k \in {"not_image", "empty"}}
    \cup FailingInputs \cup ImageInputs

\* What main can be given: a path to no file, or a path to a file.
CliInputs ==
    {[kind |-> "missing_file", text |-> << >>]} \cup FailingInputs \cup ImageInputs

Unassigned == [kind |-> "unassigned"]

\* cv2.imdecode / cv2.imread: None when the bytes are no image.
imdecode(contents) == IF contents.kind = "undecodable" THEN Unassigned ELSE contents

\* cv2.cvtColor ... cv2.morphologyEx: the cleaned image, or an exception.
preprocess_image(img) ==
    IF img.kind = "unprocessable" THEN Raise("cv2.error") ELSE Return(img)

\* pytesseract.image_to_string(pil_image, config=self.tesseract_config): the
\* text of the image under the fas+eng configuration; under any other
\* configuration the Persian script is not recognised.
image_to_string(image, config) ==
    IF image.kind = "ocr_error" THEN Raise("TesseractError")
    ELSE IF config = TesseractConfig THEN Return(image.text)
    ELSE Return(SelectSeq(image.text, LAMBDA c : c \in AsciiDigits \cup {" ", "\n", "/", ":"}))

extract_text_from_image(self, processed_image) ==
    image_to_string(processed_image, self.tesseract_config)

\* The test left out: no text is taken for empty.
NoTextNever(extracted_text) == FALSE

\* if not extracted_text
NoText(extracted_text) == extracted_text = << >>

-----------------------------------------------------------------------------
(* Outcomes *)

\* The dict the orchestrator returns.
Success(extracted_text, parsed_info) ==
    [kind |-> "success", raw_text |-> extracted_text, extracted_info |-> parsed_info]

\* An HTTP error response, or the CLI's None / exit with the messages printed.
Failure(status, causes) == [kind |-> "failure", status |-> status, causes |-> causes]

\* parsed_info['national_id_valid'] = is_valid
WithValid(parsed_info, is_valid) == parsed_info @@ ("national_id_valid" :> is_valid)

\* The validation step of the orchestrator: the dict after it.  The CLI has
\* no else branch.
ValidatedInfo(prog, parsed_info) ==
    IF parsed_info["national_id"] # None
    THEN LET is_valid == validate_national_id(parsed_info["national_id"])
         IN  IF is_valid.kind = "raise" THEN is_valid
             ELSE Return(WithValid(parsed_info, is_valid.value))
    ELSE IF prog = "api" THEN Return(WithValid(parsed_info, FALSE))
    ELSE Return(parsed_info)

-----------------------------------------------------------------------------
(* The orchestrators, one action per stage.  In src/api.py a request runs  *)
(* ocr_from_id_card and, inside it, process_id_card_from_bytes on the      *)
(* module-level extractor; in src/id_card_extractor.py main runs           *)
(* process_id_card once.                                                   *)

InitLocals ==
    [img |-> Unassigned, processed_image |-> Unassigned,
     extracted_text |-> None, parsed_info |-> Unassigned]

\* name = value, where name is a local variable of request r's call: the
\* assignment changes the locals of every request as if name were an
\* attribute of the shared instance.
StoreShared(r, name, value) == [q \in Req |-> [locals[q] EXCEPT ![name] = value]]

\* name = value, where name is a local variable of request r's call.
StoreLocal(r, name, value) == [locals EXCEPT ![r][name] = value]

\* Request r ran stage and goes on to the statement next.
GoOn(r, stage, next) ==
    /\ pc' = [pc EXCEPT ![r] = next]
    /\ stages' = [stages EXCEPT ![r] = Append(@, stage)]
    /\ UNCHANGED outcome

\* Request r ran stage and returns (or raises) out to its caller.
Finish(r, stage, out) ==
    /\ pc' = [pc EXCEPT ![r] = "done"]
    /\ stages' = [stages EXCEPT ![r] = Append(@, stage)]
    /\ outcome' = [outcome EXCEPT ![r] = out]

\* api: an exception inside process_id_card_from_bytes becomes
\* Exception("Error processing ID card: ...") and then HTTP 500.
\* cli: process_id_card returns None and main prints its own message.
StageFailure(cause) ==
    IF program = "api" THEN Failure("HTTP 500", <<cause>>)
    ELSE Failure("None", <<cause, "error processing image">>)

\* ocr_from_id_card up to the call of the extractor: the content type and
\* the length of the upload are checked.
ReceiveUpload(r) ==
    /\ program = "api"
    /\ pc[r] = "endpoint"
    /\ IF input[r].kind = "not_image"
       THEN Finish(r, "receive", Failure("HTTP 400", <<"File must be an image (JPEG, PNG, etc.)">>))
       ELSE IF input[r].kind = "empty"
       THEN Finish(r, "receive", Failure("HTTP 400", <<"Uploaded file is empty">>))
       ELSE GoOn(r, "receive", "decode")
    /\ UNCHANGED <<locals, extractor, program, input, validateVars, parseVars>>

\* main up to the call of the extractor: the path must name a file.
Main(r) ==
    /\ program = "cli"
    /\ pc[r] = "main"
    /\ IF input[r].kind = "missing_file"
       THEN Finish(r, "main", Failure("exit 1", <<"image file not found">>))
       ELSE GoOn(r, "main", "preprocess")
    /\ UNCHANGED <<locals, extractor, program, input, validateVars, parseVars>>

\* api: img = cv2.imdecode(...); if img is None: raise ValueError
Decode(r) ==
    /\ program = "api"
    /\ pc[r] = "decode"
    /\ LET img == imdecode(input[r])
       IN  IF img = Unassigned
           THEN /\ Finish(r, "decode", StageFailure("Could not decode image from uploaded file"))
                /\ UNCHANGED locals
           ELSE /\ GoOn(r, "decode", "preprocess")
                /\ locals' = StoreLocal(r, "img", img)
    /\ UNCHANGED <<extractor, program, input, validateVars, parseVars>>

\* processed_image = self.preprocess_image(...).  In the CLI preprocess_image
\* reads the file itself and returns None on any error, on which
\* process_id_card returns None.
Preprocess(r) ==
    /\ pc[r] = "preprocess"
    /\ LET img == IF program = "api" THEN locals[r].img ELSE imdecode(input[r])
           processed == IF img = Unassigned THEN Raise("ValueError")
                        ELSE preprocess_image(img)
       IN  IF processed.kind = "raise"
           THEN /\ Finish(r, "preprocess",
                          StageFailure(IF processed.exc = "ValueError"
                                       THEN "cannot load image"
                                       ELSE "Error in image preprocessing"))
                /\ UNCHANGED locals
           ELSE /\ GoOn(r, "preprocess", "extract")
                /\ locals' = StoreLocal(r, "processed_image", processed.value)
    /\ UNCHANGED <<extractor, program, input, validateVars, parseVars>>

\* extracted_text = self.extract_text_from_image(processed_image)
\* if not extracted_text: ...
\* In the CLI extract_text_from_image prints the error and returns "".
ExtractText(r) ==
    /\ pc[r] = "extract"
    /\ LET got == extract_text_from_image(extractor, locals[r].processed_image)
           extracted_text == IF got.kind = "raise" THEN << >> ELSE got.value
       IN  IF got.kind = "raise" /\ program = "api"
           THEN /\ Finish(r, "extract", StageFailure("Error in text extraction"))
                /\ UNCHANGED locals
           ELSE IF NoText(extracted_text)
           THEN /\ Finish(r, "extract",
                          IF got.kind = "raise"
                          THEN Failure("None", <<"Error in text extraction",
                                                 "No text detected in image",
                                                 "error processing image">>)
                          ELSE StageFailure("No text detected in image"))
                /\ locals' = StoreLocal(r, "extracted_text", extracted_text)
           ELSE /\ GoOn(r, "extract", "parse")
                /\ locals' = StoreLocal(r, "extracted_text", extracted_text)
    /\ UNCHANGED <<extractor, program, input, validateVars, parseVars>>

\* parsed_info = self.parse_id_card_info(extracted_text)
ParseInfo(r) ==
    /\ pc[r] = "parse"
    /\ GoOn(r, "parse", "validate")
    /\ locals' = StoreLocal(r, "parsed_info", parse_id_card_info(locals[r].extracted_text))
    /\ UNCHANGED <<extractor, program, input, validateVars, parseVars>>

\* if parsed_info['national_id']: ... else: ...
ValidateId(r) ==
    /\ pc[r] = "validate"
    /\ LET validated == ValidatedInfo(program, locals[r].parsed_info)
       IN  IF validated.kind = "raise"
           THEN /\ Finish(r, "validate", StageFailure("invalid literal for int()"))
                /\ UNCHANGED locals
           ELSE /\ GoOn(r, "validate", "assemble")
                /\ locals' = StoreLocal(r, "parsed_info", validated.value)
    /\ UNCHANGED <<extractor, program, input, validateVars, parseVars>>

\* return {'success': True, 'raw_text': ..., 'extracted_info': ...}
Assemble(r) ==
    /\ pc[r] = "assemble"
    /\ Finish(r, "assemble", Success(locals[r].extracted_text, locals[r].parsed_info))
    /\ UNCHANGED <<locals, extractor, program, input, validateVars, parseVars>>

-----------------------------------------------------------------------------
(* Specifications *)

ValidateIdle == national_id_arg = None /\ validate_result = Pending

ParseIdle == text = << >> /\ parse_result = Pending

PipelineIdle ==
    /\ program = "none"
    /\ extractor = InitExtractor
    /\ input = << >>
    /\ pc = << >>
    /\ locals = << >>
    /\ stages = << >>
    /\ outcome = << >>

\* One call of validate_national_id on any argument.
InitValidate ==
    /\ national_id_arg \in ValidateInputs
    /\ validate_result = Pending
    /\ ParseIdle
    /\ PipelineIdle

CallValidate ==
    /\ validate_result = Pending
    /\ validate_result' = validate_national_id(national_id_arg)
    /\ UNCHANGED <<national_id_arg, parseVars, pipelineVars>>

SpecValidate == InitValidate /\ [][CallValidate]_vars

\* One call of parse_id_card_info on any text.
InitParse ==
    /\ text \in Texts
    /\ parse_result = Pending
    /\ ValidateIdle
    /\ PipelineIdle

CallParse ==
    /\ parse_result = Pending
    /\ parse_result' = Return(parse_id_card_info(text))
    /\ UNCHANGED <<text, validateVars, pipelineVars>>

SpecParse == InitParse /\ [][CallParse]_vars

\* The service with MaxReq requests in flight on the one extractor, or one
\* run of the command-line program.
Init ==
    /\ ValidateIdle
    /\ ParseIdle
    /\ program \in {"api", "cli"}
    /\ extractor = InitExtractor
    /\ input \in [Req -> IF program = "api" THEN ApiInputs ELSE CliInputs]
    /\ program = "cli" => \A r \in Req \ {1} : input[r] = input[1]
    /\ pc = [r \in Req |-> IF program = "api" THEN "endpoint"
                           ELSE IF r = 1 THEN "main" ELSE "unused"]
    /\ locals = [r \in Req |-> InitLocals]
    /\ stages = [r \in Req |-> << >>]
    /\ outcome = [r \in Req |-> Unassigned]

Next ==
    \E r \in Req :
        \/ ReceiveUpload(r)
        \/ Main(r)
        \/ Decode(r)
        \/ Preprocess(r)
        \/ ExtractText(r)
        \/ ParseInfo(r)
        \/ ValidateId(r)
        \/ Assemble(r)

Spec == Init /\ [][Next]_vars

-----------------------------------------------------------------------------
(* Properties of validate_national_id, under SpecValidate *)

IsTenAsciiDigits(d) ==
    d # None /\ Len(d) = 10 /\ \A i \in 1..10 : d[i] \in AsciiDigits

\* The number an ASCII digit writes.
AsciiValue(c) == CHOOSE n \in 0..9 : ToString(n) = c

\* sum over i = 0..8 of d[i] * (10 - i), with d indexed from 1 here
WeightedSum(d) ==
    10 * AsciiValue(d[1]) + 9 * AsciiValue(d[2]) + 8 * AsciiValue(d[3])
    + 7 * AsciiValue(d[4]) + 6 * AsciiValue(d[5]) + 5 * AsciiValue(d[6])
    + 4 * AsciiValue(d[7]) + 3 * AsciiValue(d[8]) + 2 * AsciiValue(d[9])

ExpectedCheckDigit(d) ==
    LET remainder == WeightedSum(d) % 11
    IN  IF remainder < 2 THEN remainder ELSE 11 - remainder

AllIdentical(d) == \A i \in 1..10 : d[i] = d[1]

\* C1: for a string d of ten ASCII digits validate_national_id returns true
\* if and only if the digits are not all identical and the last digit equals
\* the expected check digit (weighted sum of the first nine, mod 11, kept
\* when below 2 and subtracted from 11 otherwise); so ten identical digits
\* are invalid even when the arithmetic would accept them.
C1_ChecksumIff ==
    (validate_result # Pending /\ IsTenAsciiDigits(national_id_arg)) =>
        validate_result =
            Return(/\ ~AllIdentical(national_id_arg)
                   /\ AsciiValue(national_id_arg[10]) = ExpectedCheckDigit(national_id_arg))

\* "1111111111" satisfies the arithmetic and has been rejected.
C1_Witness ==
    /\ national_id_arg = [i \in 1..10 |-> "1"]
    /\ AsciiValue(national_id_arg[10]) = ExpectedCheckDigit(national_id_arg)
    /\ validate_result = Return(FALSE)

\* C2: validate_national_id is total: on every string, of any length and
\* any characters, it returns a boolean and raises nothing.
C2_Total ==
    validate_result # Pending =>
        validate_result.kind = "return" /\ validate_result.value \in BOOLEAN

-----------------------------------------------------------------------------
(* Properties of parse_id_card_info, under SpecParse *)

Parsed == parse_result # Pending

\* info[field] of the call made
Got(field) == parse_result.value[field]

Min(S) == CHOOSE x \in S : \A y \in S : x <= y

IsPrefix(s, t) == Len(s) <= Len(t) /\ SubSeq(t, 1, Len(s)) = s

\* The positions at which a literal occurs in a text.
Occurrences(t, lit) == {i \in 1..Len(t) : MatchesAt(t, i, lit)}

\* The start positions of the runs of exactly ten decimal digits: ten digits
\* with no digit right before and none right after.
ExactRunStarts(t) ==
    {i \in 1..(Len(t) - 9) :
        /\ \A k \in 0..9 : IsDigit(t[i + k])
        /\ (i = 1 \/ ~IsDigit(t[i - 1]))
        /\ (i + 9 = Len(t) \/ ~IsDigit(t[i + 10]))}

\* C4: national_id is set if and only if the text holds a run of exactly ten
\* decimal digits; it is then the first such run, ten ASCII digits, and never
\* digits cut from a longer run.
C4_ExactRunOnly ==
    Parsed =>
        LET starts == ExactRunStarts(text)
        IN  IF starts = {} THEN Got("national_id") = None
            ELSE /\ Got("national_id") = SubSeq(text, Min(starts), Min(starts) + 9)
                 /\ \A k \in 1..10 : Got("national_id")[k] \in AsciiDigits

\* C5: every field returned as present is non-empty after trimming and
\* longer than one character.
C5_EveryFieldLong ==
    Parsed =>
        \A field \in Fields :
            Got(field) # None => strip(Got(field)) # << >> /\ Len(Got(field)) > 1

\* C5 (as amended): every present field other than certificate_number is
\* non-empty after trimming and longer than one character, the name-like
\* ones being stored trimmed; a present certificate_number is a non-empty run
\* of digits, which may be a single digit.
C5_FieldLengths ==
    Parsed =>
        /\ \A field \in Fields \ {"certificate_number"} :
              Got(field) # None => strip(Got(field)) # << >> /\ Len(Got(field)) > 1
        /\ \A field \in NameFields :
              Got(field) # None => strip(Got(field)) = Got(field)
        /\ Got("certificate_number") # None =>
              /\ Len(Got("certificate_number")) >= 1
              /\ \A k \in 1..Len(Got("certificate_number")) :
                    IsDigit(Got("certificate_number")[k])

\* A one-digit certificate number next to a name has been returned.
C5_Witness ==
    /\ Parsed
    /\ Got("certificate_number") = <<"5">>
    /\ Got("last_name") = Rezaei

\* The acceptance predicate of a field's rule and the value it stores.
Accepts(field, candidate) == field \in NameFields => Len(strip(candidate)) > 1

Stored(field, candidate) == IF field \in NameFields THEN strip(candidate) ELSE candidate

\* C7: the first candidate of a rule in document order decides the field: it
\* is the value when accepted, and when it is rejected (a name-like candidate
\* of trimmed length <= 1) no later candidate takes its place.
C7_FirstCandidateDecides ==
    Parsed =>
        \A field \in Fields :
            LET candidates == findall(field, text)
            IN  Got(field) = IF candidates = << >> THEN None
                             ELSE IF Accepts(field, candidates[1])
                                  THEN Stored(field, candidates[1])
                                  ELSE None

\* C7 (as amended): the field is the first candidate in document order that
\* passes the rule's acceptance predicate; a name-like candidate of trimmed
\* length <= 1 is skipped and the next candidate is considered; the field is
\* absent only when no candidate passes.
C7_FirstAcceptedCandidate ==
    Parsed =>
        \A field \in Fields :
            LET candidates == findall(field, text)
                accepted == {k \in 1..Len(candidates) : Accepts(field, candidates[k])}
            IN  IF accepted = {} THEN Got(field) = None
                ELSE Got(field) = Stored(field, candidates[Min(accepted)])

\* The first first_name candidate was the single character "A" and the
\* second one, "Ali", has been selected.
C7_Witness ==
    /\ Parsed
    /\ Len(findall("first_name", text)) >= 2
    /\ findall("first_name", text)[1] = <<"A">>
    /\ Got("first_name") = Ali

LabelOf(field) ==
    CASE field = "first_name" -> LabelNam
      [] field = "last_name" -> LabelNamKhanevadegi
      [] field = "father_name" -> LabelNamPedar
      [] field = "birth_place" -> LabelMahalTavallod

RECURSIVE DropSpaces(_)
DropSpaces(s) == IF s # << >> /\ IsSpace(Head(s)) THEN DropSpaces(Tail(s)) ELSE s

DropColon(s) == IF s # << >> /\ Head(s) = ":" THEN Tail(s) ELSE s

RECURSIVE FirstLine(_)
FirstLine(s) ==
    IF s = << >> \/ IsNewline(Head(s)) THEN << >>
    ELSE <<Head(s)>> \o FirstLine(Tail(s))

\* The text that follows the label occurring at position i: whitespace, an
\* optional colon and whitespace skipped, then up to the end of the line,
\* trimmed.
ValueAfter(t, i, label) ==
    strip(FirstLine(DropSpaces(DropColon(DropSpaces(SubSeq(t, i + Len(label), Len(t)))))))

\* The literal is a whole line of the text, starting at position i.
WholeLineAt(t, i, line) ==
    /\ MatchesAt(t, i, line)
    /\ (i = 1 \/ IsNewline(t[i - 1]))
    /\ (i + Len(line) - 1 = Len(t) \/ IsNewline(t[i + Len(line)]))

C10_PrefixLabel ==
    Parsed =>
        /\ \A other \in {LabelNamKhanevadegi, LabelNamPedar} :
              LET occ == Occurrences(text, other)
              IN  occ # {} =>
                    /\ Got("first_name") # None
                    /\ Min(occ) = Min(Occurrences(text, LabelNam)) =>
                          IsPrefix(SubSeq(other, Len(LabelNam) + 2, Len(other)),
                                   Got("first_name"))
        /\ text = Lines[5] =>
              /\ Got("first_name") = SubSeq(Lines[5], Len(LabelNam) + 2, Len(Lines[5]))
              /\ Got("last_name") = Rezaei

\* A text with a father_name label and no first-name label of its own has
\* been parsed to a first_name that starts with the rest of that label.
C10_Witness ==
    /\ Parsed
    /\ text = Lines[7]
    /\ Got("first_name") = <<"pe", "dal", "re", " ", "B", "o">>
    /\ Got("father_name") = <<"B", "o">>

-----------------------------------------------------------------------------
(* Properties of the orchestrators, under Spec *)

\* C3: in every successful result the record holds national_id_valid, and it
\* is true exactly when national_id is present and passes
\* validate_national_id, false otherwise, also when national_id is absent.
C3_ValidFlag ==
    \A r \in Req :
        outcome[r].kind = "success" =>
            LET d == outcome[r].extracted_info
            IN  /\ "national_id_valid" \in DOMAIN d
                /\ d["national_id_valid"] =
                      (/\ d["national_id"] # None
                       /\ validate_national_id(d["national_id"]) = Return(TRUE))

LaterStages == {"parse", "validate", "assemble"}

C6_FailureIsWhole ==
    \A r \in Req :
        /\ outcome[r].kind = "failure" =>
              /\ pc[r] = "done"
              /\ Len(outcome[r].causes) >= 1
              /\ \A k \in 1..Len(stages[r]) : stages[r][k] \notin LaterStages
              /\ locals[r].parsed_info = Unassigned
        /\ (pc[r] = "done" /\ input[r].kind # "image") => outcome[r].kind = "failure"
        /\ (pc[r] = "done" /\ locals[r].extracted_text = << >>) =>
              /\ outcome[r].kind = "failure"
              /\ \E k \in 1..Len(outcome[r].causes) :
                    outcome[r].causes[k] = "No text detected in image"
        /\ outcome[r].kind = "success" =>
              /\ outcome[r].raw_text # << >>
              /\ Len(stages[r]) >= 3
              /\ SubSeq(stages[r], Len(stages[r]) - 2, Len(stages[r]))
                    = <<"parse", "validate", "assemble">>

C6_OutcomeIsFinal ==
    \A r \in Req :
        outcome[r] # Unassigned =>
            outcome'[r] = outcome[r] /\ stages'[r] = stages[r] /\ locals'[r] = locals[r]

\* C6: a stage failure (undecodable image, failed preprocessing, failed OCR
\* call, empty OCR text) short-circuits: none of parse, validate, assemble
\* runs, no success and no partly filled record is returned, and the request
\* ends with one failure outcome that carries a cause and never changes;
\* empty text is reported as "no text detected", never as a success.
C6_ShortCircuit == []C6_FailureIsWhole /\ [][C6_OutcomeIsFinal]_vars

\* An image whose text is empty has ended in the no-text failure right after
\* the extraction stage.
C6_Witness ==
    \E r \in Req :
        /\ input[r] = [kind |-> "image", text |-> << >>]
        /\ outcome[r] = Failure("HTTP 500", <<"No text detected in image">>)
        /\ stages[r] = <<"receive", "decode", "preprocess", "extract">>

\* What one request gets when it runs alone on a fresh extractor.
RunAlone(prog, inp) ==
    LET read == image_to_string(inp, TesseractConfig)
        cli3(cause) == Failure("None", <<cause, "error processing image">>)
    IN  CASE inp.kind = "not_image" ->
                Failure("HTTP 400", <<"File must be an image (JPEG, PNG, etc.)">>)
          [] inp.kind = "empty" -> Failure("HTTP 400", <<"Uploaded file is empty">>)
          [] inp.kind = "missing_file" -> Failure("exit 1", <<"image file not found">>)
          [] inp.kind = "undecodable" ->
                IF prog = "api"
                THEN Failure("HTTP 500", <<"Could not decode image from uploaded file">>)
                ELSE cli3("cannot load image")
          [] inp.kind = "unprocessable" ->
                IF prog = "api" THEN Failure("HTTP 500", <<"Error in image preprocessing">>)
                ELSE cli3("Error in image preprocessing")
          [] inp.kind = "ocr_error" ->
                IF prog = "api" THEN Failure("HTTP 500", <<"Error in text extraction">>)
                ELSE Failure("None", <<"Error in text extraction",
                                       "No text detected in image",
                                       "error processing image">>)
          [] inp.kind = "image" ->
                IF read.value = << >>
                THEN IF prog = "api"
                     THEN Failure("HTTP 500", <<"No text detected in image">>)
                     ELSE cli3("No text detected in image")
                ELSE Success(read.value,
                             ValidatedInfo(prog, parse_id_card_info(read.value)).value)

C9_OutcomeAsAlone ==
    /\ extractor = InitExtractor
    /\ \A r \in Req :
          outcome[r] # Unassigned => outcome[r] = RunAlone(program, input[r])

C9_StepIsLocal ==
    /\ extractor' = extractor
    /\ input' = input
    /\ \E r \in Req :
          \A q \in Req \ {r} :
              /\ locals'[q] = locals[q]
              /\ stages'[q] = stages[q]
              /\ outcome'[q] = outcome[q]
              /\ pc'[q] = pc[q]

\* C9: under every interleaving of the requests served by the one shared
\* extractor, a step of one request changes nothing another request holds,
\* the instance keeps the configuration its construction set, and every
\* request ends with the outcome it would get running alone on its input.
C9_NoInterference == []C9_OutcomeAsAlone /\ [][C9_StepIsLocal]_vars

\* Two requests with different images are in flight together: one has
\* returned its result while the other holds its own text, not yet parsed.
C9_Witness ==
    /\ program = "api"
    /\ outcome[1].kind = "success"
    /\ pc[2] = "parse"
    /\ locals[2].extracted_text # outcome[1].raw_text
    /\ locals[1].extracted_text = outcome[1].raw_text

====
